---- MODULE Spec2Model ----
(***************************************************************************)
(* hyp-code-extract: the HypExtractor component of src/app/page.tsx.       *)
(*                                                                         *)
(* Representation.                                                         *)
(*   - A JavaScript string is a sequence of one-character strings.         *)
(*   - An ArrayBuffer is a sequence of cells. The first four cells are the *)
(*     bytes of the little-endian header length. A cell of the header      *)
(*     region stands for one lexical unit of the header's JSON text (the   *)
(*     opening of the document up to the "[" of "assets", one asset        *)
(*     descriptor, the closing "]}", one whitespace byte, ...). A cell of  *)
(*     the payload region is one byte, 0..255.                             *)
(*   - Decoded text (a script's content) is a sequence of code points.     *)
(***************************************************************************)
EXTENDS Integers, Sequences, FiniteSets, TLC

(***************************************************************************)
(* Bounds of the model.                                                    *)
(***************************************************************************)
\* the longest file list the page holds
MaxFiles == 2
\* the most asset descriptors of a generated header
MaxAssets == 3
\* the largest declared size of a generated asset descriptor
MaxSize == 2
\* the most payload bytes of a generated container
MaxPayload == 3

(***************************************************************************)
(* Values. A `const x = e` of the code is written Only({ ... x ... :       *)
(* x \in {e} }): e is worked out once, before what follows uses it.        *)
(***************************************************************************)
Only(S) == CHOOSE x \in S : TRUE

(***************************************************************************)
(* Strings.                                                                *)
(***************************************************************************)
Digits == {"0", "1", "2", "3", "4", "5", "6", "7", "8", "9"}

\* what the regular expression class \s matches, among the characters used
Whitespace == {" ", "\t", "\n"}

\* String.prototype.toLowerCase, on the characters used
LowerChar(c) ==
    CASE c = "H" -> "h"
      [] c = "Y" -> "y"
      [] c = "P" -> "p"
      [] c = "J" -> "j"
      [] c = "S" -> "s"
      [] c = "W" -> "w"
      [] OTHER -> c

ToLowerCase(s) == [i \in 1..Len(s) |-> LowerChar(s[i])]

EndsWith(s, suffix) ==
    /\ Len(s) >= Len(suffix)
    /\ SubSeq(s, Len(s) - Len(suffix) + 1, Len(s)) = suffix

\* s.replace(/<suffix>$/i, ""), for a literal suffix given in lower case
StripSuffixCI(s, suffix) ==
    IF EndsWith(ToLowerCase(s), suffix)
    THEN SubSeq(s, 1, Len(s) - Len(suffix))
    ELSE s

DigitChar(d) ==
    CASE d = 0 -> "0" [] d = 1 -> "1" [] d = 2 -> "2" [] d = 3 -> "3"
      [] d = 4 -> "4" [] d = 5 -> "5" [] d = 6 -> "6" [] d = 7 -> "7"
      [] d = 8 -> "8" [] OTHER -> "9"

\* the decimal text of a natural number, as a template literal prints it
NumberToString(n) ==
    LET text[m \in Nat] ==
            IF m < 10 THEN <<DigitChar(m)>>
            ELSE text[m \div 10] \o <<DigitChar(m % 10)>>
    IN  text[n]

\* s.replace(/[cls]{minLen,}/g, rep): every maximal run of at least minLen
\* characters of cls is replaced by rep; shorter runs are kept
ReplaceRuns(s, cls, minLen, rep) ==
    LET end[k \in 1..(Len(s) + 1)] ==
            IF k > Len(s) \/ s[k] \notin cls THEN k ELSE end[k + 1]
        from[i \in 1..(Len(s) + 1)] ==
            IF i > Len(s) THEN <<>>
            ELSE IF s[i] \in cls
                 THEN (IF end[i] - i >= minLen THEN rep
                       ELSE SubSeq(s, i, end[i] - 1)) \o from[end[i]]
                 ELSE <<s[i]>> \o from[i + 1]
    IN  from[1]

\* s.replace(/^_+|_+$/g, "")
TrimUnderscores(s) ==
    LET kept == {k \in 1..Len(s) : s[k] # "_"} IN
    IF kept = {} THEN <<>>
    ELSE SubSeq(s, (CHOOSE k \in kept : \A m \in kept : k <= m),
                   (CHOOSE k \in kept : \A m \in kept : m <= k))

\* the shortest run of digits cleanFilename removes
HashDigits == 8

\* the four replacements of lines 20-29, each on the result of the one before
cleanFilename(name) ==
    Only({ TrimUnderscores(doubles) :
           doubles \in { ReplaceRuns(hashes, {"_"}, 2, <<"_">>) :
           hashes  \in { ReplaceRuns(spaces, Digits, HashDigits, <<>>) :
           spaces  \in { ReplaceRuns(given, Whitespace, 1, <<"_">>) :
           given   \in { name } } } } })

\* url.split('/').pop(): what follows the last "/", the whole string if none
LastSegment(url) ==
    LET slashes == {k \in 1..Len(url) : url[k] = "/"}
        from    == IF slashes = {} THEN 1
                   ELSE 1 + (CHOOSE k \in slashes : \A m \in slashes : m <= k)
    IN  SubSeq(url, from, Len(url))

(***************************************************************************)
(* Bytes and text.                                                         *)
(***************************************************************************)
Min(a, b) == IF a <= b THEN a ELSE b

\* ArrayBuffer.prototype.slice(begin, end) for 0 <= begin: both ends are
\* clamped to the buffer's length, and an end before the begin gives nothing
Slice(buffer, begin, end) ==
    SubSeq(buffer, Min(begin, Len(buffer)) + 1, Min(end, Len(buffer)))

\* DataView.prototype.getUint32(0, true) on a buffer of at least 4 bytes
getUint32LE(buffer) ==
    buffer[1] + 256 * buffer[2] + 65536 * buffer[3] + 16777216 * buffer[4]

\* the four bytes getUint32LE reads n back from
Uint32LE(n) ==
    << n % 256, (n \div 256) % 256, (n \div 65536) % 256,
       (n \div 16777216) % 256 >>

\* U+FFFD, what a non-fatal TextDecoder puts for a malformed sequence
ReplacementChar == 65533

\* U+FEFF, which TextDecoder drops at the start of the text
ByteOrderMark == 65279

\* The UTF-8 decoder of the Encoding standard, as new TextDecoder() runs it
\* (fatal: false). from[i, needed, seen, lower, upper, cp] is the text of
\* the bytes from byte i on, with `needed` continuation bytes still expected,
\* `seen` of them read, the next one expected in lower..upper, and cp the
\* code point so far.
Utf8Decode(bytes) ==
    LET from[i \in 1..(Len(bytes) + 1), needed \in 0..3, seen \in 0..2,
             lower \in 0..255, upper \in 0..255, cp \in Nat] ==
          IF i > Len(bytes)
          THEN IF needed # 0 THEN <<ReplacementChar>> ELSE <<>>
          ELSE IF needed = 0
          THEN CASE bytes[i] \in 0..127 ->
                      <<bytes[i]>> \o from[i + 1, 0, 0, 128, 191, 0]
                 [] bytes[i] \in 194..223 ->
                      from[i + 1, 1, 0, 128, 191, bytes[i] % 32]
                 [] bytes[i] \in 224..239 ->
                      from[i + 1, 2, 0,
                           IF bytes[i] = 224 THEN 160 ELSE 128,
                           IF bytes[i] = 237 THEN 159 ELSE 191,
                           bytes[i] % 16]
                 [] bytes[i] \in 240..244 ->
                      from[i + 1, 3, 0,
                           IF bytes[i] = 240 THEN 144 ELSE 128,
                           IF bytes[i] = 244 THEN 143 ELSE 191,
                           bytes[i] % 8]
                 [] OTHER ->
                      <<ReplacementChar>> \o from[i + 1, 0, 0, 128, 191, 0]
          ELSE IF bytes[i] \notin lower..upper
               THEN \* the byte is read again, as the start of a sequence
                    <<ReplacementChar>> \o from[i, 0, 0, 128, 191, 0]
               ELSE IF seen + 1 = needed
                    THEN <<cp * 64 + (bytes[i] % 64)>>
                           \o from[i + 1, 0, 0, 128, 191, 0]
                    ELSE from[i + 1, needed, seen + 1, 128, 191,
                              cp * 64 + (bytes[i] % 64)]
    IN  from[1, 0, 0, 128, 191, 0]

\* new TextDecoder().decode(bytes): never fails, drops a leading byte order
\* mark
TextDecode(bytes) ==
    Only({ IF Len(text) > 0 /\ text[1] = ByteOrderMark THEN Tail(text)
           ELSE text :
           text \in { Utf8Decode(bytes) } })

\* whether bytes are well-formed UTF-8: no malformed sequence was replaced
\* (a U+FFFD of the text itself is the three bytes 239 191 189)
RECURSIVE CountChar(_, _)
CountChar(text, c) ==
    IF text = <<>> THEN 0
    ELSE (IF Head(text) = c THEN 1 ELSE 0) + CountChar(Tail(text), c)

RECURSIVE CountEncodedReplacement(_, _)
CountEncodedReplacement(bytes, i) ==
    IF i + 2 > Len(bytes) THEN 0
    ELSE IF bytes[i] = 239 /\ bytes[i + 1] = 191 /\ bytes[i + 2] = 189
         THEN 1 + CountEncodedReplacement(bytes, i + 3)
         ELSE CountEncodedReplacement(bytes, i + 1)

ValidUtf8(bytes) ==
    CountChar(Utf8Decode(bytes), ReplacementChar)
      = CountEncodedReplacement(bytes, 1)

(***************************************************************************)
(* The header: a JSON document { "assets": [ {type, url, size}, ... ] }.   *)
(***************************************************************************)
\* the type tags of the asset descriptors used
AssetTypes == <<"script", "image", "Script">>

\* the urls of the asset descriptors used
AssetUrls ==
    << <<"a", "/", "x", ".", "j", "s">>,
       <<"b", "/", "x", ".", "j", "s">>,
       <<"m", "a", "i", "n", ".", "J", "S">>,
       <<"m", "/">>,
       <<"i", ".", "p", "n", "g">>,
       <<"l", "/", "m", "y", " ", "x", ".", "j", "s">> >>

\* header cells: the text up to and including the "[" of "assets"
HOpen == 123
\* the closing "]}"
HClose == 125
\* one whitespace byte (a space), which JSON.parse skips around a document
HSpace == 32
\* a whole document with no "assets" member: {}
HEmptyObject == 48

\* the header cell standing for the descriptor {type, url, size} (with the
\* comma that separates it from the one before)
AssetCell(t, u, size) == 1000 + 100 * size + 10 * t + u

IsAssetCell(c) ==
    /\ c >= 1000
    /\ (c % 100) \div 10 \in 1..Len(AssetTypes)
    /\ c % 10 \in 1..Len(AssetUrls)

\* the object JSON.parse builds from a descriptor's text
AssetInfo(c) ==
    [ type |-> AssetTypes[(c % 100) \div 10],
      url  |-> AssetUrls[c % 10],
      size |-> (c - 1000) \div 100 ]

\* text.trim() for JSON's whitespace: JSON.parse allows it around the value
TrimSpace(cells) ==
    LET inner == {k \in 1..Len(cells) : cells[k] # HSpace}
        first == CHOOSE k \in inner : \A m \in inner : k <= m
        last  == CHOOSE k \in inner : \A m \in inner : m <= k
    IN  IF inner = {} THEN <<>> ELSE SubSeq(cells, first, last)

\* JSON.parse(new TextDecoder().decode(headerBytes)): the parsed document,
\* or the SyntaxError it throws on anything that is not one whole document
JSONParse(cells) ==
    Only({ IF doc = <<HEmptyObject>>
           THEN [ok |-> TRUE, hasAssets |-> FALSE, assets |-> <<>>]
           ELSE IF /\ Len(doc) >= 2
                   /\ doc[1] = HOpen
                   /\ doc[Len(doc)] = HClose
                   /\ \A k \in 2..(Len(doc) - 1) : IsAssetCell(doc[k])
                THEN [ok |-> TRUE, hasAssets |-> TRUE,
                      assets |-> [k \in 1..(Len(doc) - 2) |->
                                    AssetInfo(doc[k + 1])]]
                ELSE [ok |-> FALSE, hasAssets |-> FALSE, assets |-> <<>>] :
           doc \in { TrimSpace(cells) } })

(***************************************************************************)
(* extractJsFromHyp.                                                       *)
(***************************************************************************)
\* the filename of the script asset assetInfo, the scripts found so far
\* being `scripts` (line 98)
ScriptFilename(assetInfo, scripts) ==
    LET last == LastSegment(assetInfo.url) IN
    IF last # <<>> THEN last
    ELSE <<"s", "c", "r", "i", "p", "t", "_">>
           \o NumberToString(Len(scripts)) \o <<".", "j", "s">>

\* ScanAsset with the cursor moved inside the script branch only
ScanAssetScriptsOnly(buffer, assetInfo, st) ==
    LET size == assetInfo.size IN
    IF assetInfo.type = "script"
    THEN Only({ [ position |-> st.position + size,
                  scripts  |-> Append(st.scripts,
                                 [name |-> cleanFilename(filename),
                                  content |-> TextDecode(data)]),
                  reads    |-> Append(st.reads,
                                 [from |-> st.position,
                                  bytes |-> Len(data)]) ] :
                data     \in { Slice(buffer, st.position,
                                     st.position + size) },
                filename \in { ScriptFilename(assetInfo, st.scripts) } })
    ELSE st

\* One turn of the loop over header.assets (lines 91-106), from the state
\* st = [position, scripts, reads]. `reads` is the history of the slices
\* taken: for each script asset, the offset its payload was read from and
\* the number of bytes the slice held.
ScanAsset(buffer, assetInfo, st) ==
    LET size == assetInfo.size IN
    IF assetInfo.type = "script"
    THEN Only({ [ position |-> st.position + size,
                  scripts  |-> Append(st.scripts,
                                 [name |-> cleanFilename(filename),
                                  content |-> TextDecode(data)]),
                  reads    |-> Append(st.reads,
                                 [from |-> st.position,
                                  bytes |-> Len(data)]) ] :
                data     \in { Slice(buffer, st.position,
                                     st.position + size) },
                filename \in { ScriptFilename(assetInfo, st.scripts) } })
    ELSE [ position |-> st.position + size,
           scripts  |-> st.scripts,
           reads    |-> st.reads ]

\* the loop over header.assets, from the state st
ScanAssets(buffer, assets, st) ==
    LET after[i \in 0..Len(assets)] ==
            IF i = 0 THEN st
            ELSE Only({ ScanAsset(buffer, assetInfo, before) :
                        assetInfo \in { assets[i] },
                        before \in { after[i - 1] } })
    IN  after[Len(assets)]

\* What extractJsFromHyp(file) gives for the file's bytes: the scripts it
\* returns, or the exception it throws. There is no other outcome: the code
\* raises no error of its own.
extractJsFromHyp(buffer) ==
    IF Len(buffer) < 4
    THEN \* getUint32(0, true) is out of the view's bounds
         [ok |-> FALSE, error |-> "RangeError", scripts |-> <<>>, reads |-> <<>>]
    ELSE LET headerSize == getUint32LE(buffer) IN
         Only({ IF ~header.ok
                THEN [ok |-> FALSE, error |-> "SyntaxError",
                      scripts |-> <<>>, reads |-> <<>>]
                ELSE IF ~header.hasAssets
                THEN \* header.assets is undefined: not iterable
                     [ok |-> FALSE, error |-> "TypeError",
                      scripts |-> <<>>, reads |-> <<>>]
                ELSE Only({ [ok |-> TRUE, error |-> "none",
                             scripts |-> st.scripts, reads |-> st.reads] :
                            st \in { ScanAssets(buffer, header.assets,
                                         [position |-> 4 + headerSize,
                                          scripts |-> <<>>,
                                          reads |-> <<>>]) } }) :
                header \in { JSONParse(headerBytes) :
                             headerBytes \in
                               { Slice(buffer, 4, 4 + headerSize) } } })

(***************************************************************************)
(* The page's state.                                                       *)
(***************************************************************************)
VARIABLES
    files,       \* useState<File[]>: the selected files, as Catalogue indices
    processing,  \* useState(false)
    status,      \* useState<string>("")
    pc,          \* where the run of processFiles stands
    runFiles,    \* the `files` the running processFiles closed over
    fileIdx,     \* the file of runFiles the for-of loop of line 124 is at
    allScripts,  \* processFiles' local allScripts
    zip,         \* the JSZip of line 160: name -> content
    downloads,   \* what downloadBlob was called with during the latest run
    buffer,      \* the bytes handed to extractJsFromHyp on its own
    decoded      \* what extractJsFromHyp gave for buffer

vars == << files, processing, status, pc, runFiles, fileIdx, allScripts, zip,
           downloads, buffer, decoded >>

pageVars == << files, processing, status, pc, runFiles, fileIdx, allScripts,
               zip, downloads >>

\* a container as its writer lays it out: the header length, the header, the
\* payloads
Container(headerSize, header, payload) ==
    Uint32LE(headerSize) \o header \o payload

HeaderOf(assetCells) == <<HOpen>> \o assetCells \o <<HClose>>

\* a container whose header length is the true one
WellFormed(assetCells, payload) ==
    Container(Len(assetCells) + 2, HeaderOf(assetCells), payload)

\* The files a user can pick: a File is its name and its bytes.
Catalogue ==
    << \* two scripts of the same basename around an image
       [ name  |-> <<"w", ".", "h", "y", "p">>,
         bytes |-> WellFormed(<<AssetCell(1, 1, 1), AssetCell(2, 5, 1),
                                AssetCell(1, 2, 1)>>, <<65, 66, 67>>) ],
       \* one script, in two bytes of UTF-8
       [ name  |-> <<"M", "y", " ", "W", ".", "H", "Y", "P">>,
         bytes |-> WellFormed(<<AssetCell(1, 3, 2)>>, <<195, 169>>) ],
       \* no script asset: an image and an asset of type "Script"
       [ name  |-> <<"i", "m", "g", ".", "h", "y", "p">>,
         bytes |-> WellFormed(<<AssetCell(2, 5, 1), AssetCell(3, 1, 1)>>,
                              <<1, 2>>) ],
       \* a header cut before its end
       [ name  |-> <<"b", "a", "d", ".", "h", "y", "p">>,
         bytes |-> Container(2, <<HOpen, AssetCell(1, 1, 1)>>, <<65>>) ],
       \* a script with no basename, its payload not UTF-8, and one with
       \* a space in its name
       [ name  |-> <<"s", ".", "h", "y", "p">>,
         bytes |-> WellFormed(<<AssetCell(1, 4, 1), AssetCell(1, 6, 1)>>,
                              <<255, 68>>) ],
       \* not a .hyp file
       [ name  |-> <<"n", ".", "t", "x", "t">>,
         bytes |-> <<104, 105>> ] >>

\* the status texts; `name` is the file name and `count`, `of` the numbers a
\* text holds, `error` the message of the error caught
StatusText(kind, name, count, of, error) ==
    [kind |-> kind, name |-> name, count |-> count, of |-> of, error |-> error]

NoStatus == StatusText("", <<>>, 0, 0, "")

\* the JSZip with nothing in it
EmptyZip == [n \in {} |-> <<>>]

\* extractJsFromHyp has not been run on buffer
Pending ==
    [ok |-> FALSE, error |-> "pending", scripts |-> <<>>, reads |-> <<>>]

Init ==
    /\ files = <<>>
    /\ processing = FALSE
    /\ status = NoStatus
    /\ pc = "idle"
    /\ runFiles = <<>>
    /\ fileIdx = 0
    /\ allScripts = <<>>
    /\ zip = EmptyZip
    /\ downloads = <<>>
    /\ buffer = <<>>
    /\ decoded = Pending

(***************************************************************************)
(* The file list (lines 55-73, 183-191).                                   *)
(***************************************************************************)
IsHyp(f) ==
    EndsWith(ToLowerCase(Catalogue[f].name), <<".", "h", "y", "p">>)

FilterHyp(selection) == SelectSeq(selection, IsHyp)

\* the file lists a file dialog or a drop hands over
Selections == {<<f>> : f \in 1..Len(Catalogue)}

runVars == << processing, status, pc, runFiles, fileIdx, allScripts, zip,
              downloads >>

HandleFileChange(selection) ==
    /\ Len(files) + Len(FilterHyp(selection)) <= MaxFiles
    /\ files' = files \o FilterHyp(selection)
    /\ UNCHANGED << runVars, buffer, decoded >>

OnDrop(selection) ==
    /\ Len(files) + Len(FilterHyp(selection)) <= MaxFiles
    /\ files' = files \o FilterHyp(selection)
    /\ UNCHANGED << runVars, buffer, decoded >>

\* the file at `index` (from 0) leaves the list
RemoveFile(index) ==
    /\ index \in 0..(Len(files) - 1)
    /\ files' = SubSeq(files, 1, index) \o SubSeq(files, index + 2, Len(files))
    /\ UNCHANGED << runVars, buffer, decoded >>

\* the "clear all" button, shown while there are files
ClearFiles ==
    /\ Len(files) > 0
    /\ files' = <<>>
    /\ UNCHANGED << runVars, buffer, decoded >>

(***************************************************************************)
(* processFiles (lines 111-180).                                           *)
(***************************************************************************)
\* the name an extracted script is stored under (lines 130-134)
UniqueName(fileName, script) ==
    Only({ baseName \o <<"_">> \o scriptName \o <<".", "j", "s">> :
           baseName   \in { cleanFilename(StripSuffixCI(fileName,
                                             <<".", "h", "y", "p">>)) },
           scriptName \in { StripSuffixCI(script.name, <<".", "j", "s">>) } })

\* PushScripts putting each script in front of the collection
PushScriptsInFront(all, fileName, scripts) ==
    LET pushed[k \in 0..Len(scripts)] ==
            IF k = 0 THEN all
            ELSE <<[name    |-> UniqueName(fileName, scripts[k]),
                    content |-> scripts[k].content,
                    hyp     |-> fileName]>> \o pushed[k - 1]
    IN  pushed[Len(scripts)]

\* the loop of lines 128-142: the scripts of one file join the collection
PushScripts(all, fileName, scripts) ==
    LET pushed[k \in 0..Len(scripts)] ==
            IF k = 0 THEN all
            ELSE Append(pushed[k - 1],
                        [name    |-> UniqueName(fileName, scripts[k]),
                         content |-> scripts[k].content,
                         hyp     |-> fileName])
    IN  pushed[Len(scripts)]

\* zip.file(name, content): an entry of that name is replaced
ZipFile(z, name, content) ==
    [n \in (DOMAIN z) \cup {name} |-> IF n = name THEN content ELSE z[n]]

\* the loop of lines 163-165
ZipAll(z, scripts) ==
    LET filled[k \in 0..Len(scripts)] ==
            IF k = 0 THEN z
            ELSE Only({ ZipFile(before, scripts[k].name, scripts[k].content) :
                        before \in { filled[k - 1] } })
    IN  filled[Len(scripts)]

\* `hyp-scripts_${timestamp}.zip`, the timestamp left open
ZipName == <<"hyp-scripts_", "<timestamp>", ".zip">>

FileDownload(script) ==
    [kind |-> "file", name |-> script.name, content |-> script.content,
     entries |-> EmptyZip]

ZipDownload(z) ==
    [kind |-> "zip", name |-> ZipName, content |-> <<>>, entries |-> z]

\* Caught going on with the next file, if there is one
CaughtSkips(error) ==
    IF fileIdx < Len(runFiles)
    THEN /\ fileIdx' = fileIdx + 1
         /\ status' = StatusText("processing",
                                 Catalogue[runFiles[fileIdx + 1]].name, 0, 0, "")
         /\ UNCHANGED << processing, pc, runFiles, allScripts, zip, downloads >>
    ELSE /\ status' = StatusText("error", <<>>, 0, 0, error)
         /\ processing' = FALSE
         /\ pc' = "done"
         /\ UNCHANGED << runFiles, fileIdx, allScripts, zip, downloads >>

\* Caught without the finally block
CaughtNoFinally(error) ==
    /\ status' = StatusText("error", <<>>, 0, 0, error)
    /\ pc' = "done"
    /\ UNCHANGED << processing, runFiles, fileIdx, allScripts, zip, downloads >>

\* the catch and finally blocks (lines 174-179)
Caught(error) ==
    /\ status' = StatusText("error", <<>>, 0, 0, error)
    /\ processing' = FALSE
    /\ pc' = "done"
    /\ UNCHANGED << runFiles, fileIdx, allScripts, zip, downloads >>

\* the loop of line 124 goes on to the next file
NextFile(all) ==
    /\ allScripts' = all
    /\ fileIdx' = fileIdx + 1
    /\ status' = StatusText("processing", Catalogue[runFiles[fileIdx + 1]].name,
                            0, 0, "")
    /\ UNCHANGED << processing, pc, runFiles, zip, downloads >>

\* lines 145-149: nothing was extracted
NoScripts(all) ==
    /\ allScripts' = all
    /\ status' = StatusText("no javascript found", <<>>, 0, 0, "")
    /\ processing' = FALSE
    /\ pc' = "done"
    /\ UNCHANGED << runFiles, fileIdx, zip, downloads >>

\* lines 152-156, then finally: the one script is downloaded as it is
DownloadSingle(all) ==
    /\ allScripts' = all
    /\ downloads' = Append(downloads, FileDownload(all[1]))
    /\ status' = StatusText("successfully extracted javascript",
                            Catalogue[runFiles[1]].name, 0, 0, "")
    /\ processing' = FALSE
    /\ pc' = "done"
    /\ UNCHANGED << runFiles, fileIdx, zip >>

\* lines 159-169: the archive is filled and its generation awaited
StartZip(all) ==
    /\ allScripts' = all
    /\ status' = StatusText("creating zip file", <<>>, 0, 0, "")
    /\ zip' = ZipAll(EmptyZip, all)
    /\ pc' = "zipping"
    /\ UNCHANGED << processing, runFiles, fileIdx, downloads >>

\* Finish without the return of lines 145-149
FinishNoEmptyCheck(all) ==
    IF Len(runFiles) = 1 /\ Len(all) = 1 THEN DownloadSingle(all)
    ELSE StartZip(all)

\* lines 145-173, once the loop over the files has ended
Finish(all) ==
    IF Len(all) = 0 THEN NoScripts(all)
    ELSE IF Len(runFiles) = 1 /\ Len(all) = 1 THEN DownloadSingle(all)
    ELSE StartZip(all)

\* The click on the extract button (lines 198-210 and 111-126): the button
\* is disabled while processing or with no file. The handler runs up to its
\* first await, on the first file's arrayBuffer().
ProcessFiles ==
    /\ ~processing
    /\ Len(files) # 0
    /\ IF Len(files) = 0
       THEN /\ status' = StatusText("please add some .hyp files first",
                                    <<>>, 0, 0, "")
            /\ UNCHANGED << processing, pc, runFiles, fileIdx, allScripts,
                            zip, downloads >>
       ELSE /\ processing' = TRUE
            /\ runFiles' = files
            /\ allScripts' = <<>>
            /\ zip' = EmptyZip
            /\ downloads' = <<>>
            /\ fileIdx' = 1
            /\ status' = StatusText("processing", Catalogue[files[1]].name,
                                    0, 0, "")
            /\ pc' = "reading"
    /\ UNCHANGED << files, buffer, decoded >>

\* what extractJsFromHyp gives for each file of the Catalogue
Extracted ==
    [f \in 1..Len(Catalogue) |-> extractJsFromHyp(Catalogue[f].bytes)]

\* The file's bytes have arrived: extractJsFromHyp goes on from line 78 and
\* processFiles from line 126, up to the next await or to its end.
FileRead ==
    /\ pc = "reading"
    /\ \E file \in {Catalogue[runFiles[fileIdx]]} :
       \E res \in {extractJsFromHyp(file.bytes)} :
          IF ~res.ok THEN Caught(res.error)
          ELSE \E all \in {PushScripts(allScripts, file.name, res.scripts)} :
                  IF fileIdx < Len(runFiles) THEN NextFile(all)
                  ELSE Finish(all)
    /\ UNCHANGED << files, buffer, decoded >>

\* zip.generateAsync resolved (lines 169-172, then finally)
ZipGenerated ==
    /\ pc = "zipping"
    /\ downloads' = Append(downloads, ZipDownload(zip))
    /\ status' = StatusText("successfully extracted scripts", <<>>,
                            Len(allScripts), Len(runFiles), "")
    /\ processing' = FALSE
    /\ pc' = "done"
    /\ UNCHANGED << files, runFiles, fileIdx, allScripts, zip, buffer, decoded >>

\* zip.generateAsync rejected: the catch block, then finally
ZipFailed ==
    /\ pc = "zipping"
    /\ Caught("generateAsync failed")
    /\ UNCHANGED << files, buffer, decoded >>

Next ==
    \/ \E selection \in Selections : HandleFileChange(selection)
    \/ \E selection \in Selections : OnDrop(selection)
    \/ \E index \in 0..(MaxFiles - 1) : RemoveFile(index)
    \/ ClearFiles
    \/ ProcessFiles
    \/ FileRead
    \/ ZipGenerated
    \/ ZipFailed

Spec == Init /\ [][Next]_vars

\* Every await of processFiles settles: a file's bytes arrive, and
\* generateAsync resolves or rejects.
FairSpec ==
    Spec /\ WF_vars(FileRead) /\ WF_vars(ZipGenerated \/ ZipFailed)

(***************************************************************************)
(* extractJsFromHyp on its own, over generated containers.                 *)
(***************************************************************************)
\* all sequences over S of length at most n
RECURSIVE SeqsUpTo(_, _)
SeqsUpTo(S, n) ==
    IF n = 0 THEN {<<>>}
    ELSE LET shorter == SeqsUpTo(S, n - 1)
         IN  shorter \cup {Append(q, x) : q \in {r \in shorter : Len(r) = n - 1},
                                          x \in S}

\* the descriptors of the generated headers: a script and an image, of every
\* size up to MaxSize
GenAssetCells ==
    {AssetCell(1, 1, size) : size \in 0..MaxSize}
      \cup {AssetCell(2, 5, size) : size \in 0..MaxSize}

\* the byte streams the generated payloads are cut from: plain ASCII; a
\* two-byte character, a letter, a byte that is never UTF-8; spaces
ByteStreams ==
    { <<65, 66, 67, 68>>, <<195, 169, 65, 255>>, <<32, 32, 32, 32>> }

\* the first n bytes of the stream, repeated as often as needed
StreamBytes(stream, n) == [k \in 1..n |-> stream[((k - 1) % Len(stream)) + 1]]

GenPayloads ==
    {StreamBytes(stream, n) : stream \in ByteStreams, n \in 0..MaxPayload}

\* how far the declared header length is from the true one
HeaderSizeErrors == {-1, 0, 1}

\* The generated inputs: every header of at most MaxAssets descriptors with
\* every payload, the header length declared right, one short and one long;
\* a document with no "assets"; and buffers too short for a header length.
GenBuffers ==
    {Container(Len(cells) + 2 + e, HeaderOf(cells), payload) :
        cells \in SeqsUpTo(GenAssetCells, MaxAssets),
        payload \in GenPayloads,
        e \in HeaderSizeErrors}
      \cup {Container(1, <<HEmptyObject>>, payload) : payload \in GenPayloads}
      \cup {<<>>, <<1>>, <<1, 0, 0>>}

DecoderInit ==
    /\ buffer \in GenBuffers
    /\ decoded = Pending
    /\ files = <<>>
    /\ processing = FALSE
    /\ status = NoStatus
    /\ pc = "idle"
    /\ runFiles = <<>>
    /\ fileIdx = 0
    /\ allScripts = <<>>
    /\ zip = EmptyZip
    /\ downloads = <<>>

\* extractJsFromHyp is called on the buffer
Decode ==
    /\ decoded = Pending
    /\ decoded' = extractJsFromHyp(buffer)
    /\ UNCHANGED << buffer, pageVars >>

DecoderNext == Decode

DecoderSpec == DecoderInit /\ [][DecoderNext]_vars

(***************************************************************************)
(* What a container declares, read off its bytes.                          *)
(***************************************************************************)
\* the header of b decodes: b holds a header length and the bytes it spans
\* parse to a document with "assets"
HasHeader(b) ==
    /\ Len(b) >= 4
    /\ JSONParse(Slice(b, 4, 4 + getUint32LE(b))).ok
    /\ JSONParse(Slice(b, 4, 4 + getUint32LE(b))).hasAssets

HeaderAssets(b) == JSONParse(Slice(b, 4, 4 + getUint32LE(b))).assets

RECURSIVE SumSizes(_, _)
SumSizes(assets, n) ==
    IF n = 0 THEN 0 ELSE SumSizes(assets, n - 1) + assets[n].size

\* where the payload of asset i of b lies: after the header and the payloads
\* of the assets before it
OffsetOf(b, i) == 4 + getUint32LE(b) + SumSizes(HeaderAssets(b), i - 1)

\* asset i declares more bytes than b holds from its offset on
Truncated(b, i) == HeaderAssets(b)[i].size > Len(b) - OffsetOf(b, i)

SizesFit(b) == \A i \in 1..Len(HeaderAssets(b)) : ~Truncated(b, i)

\* the places of the script assets in the header, in header order
RECURSIVE ScriptIndexesUpTo(_, _)
ScriptIndexesUpTo(assets, n) ==
    IF n = 0 THEN <<>>
    ELSE ScriptIndexesUpTo(assets, n - 1)
           \o (IF assets[n].type = "script" THEN <<n>> ELSE <<>>)

ScriptIndexes(b) == ScriptIndexesUpTo(HeaderAssets(b), Len(HeaderAssets(b)))

\* the bytes of asset i of b, when the sizes fit
PayloadOf(b, i) ==
    SubSeq(b, OffsetOf(b, i) + 1, OffsetOf(b, i) + HeaderAssets(b)[i].size)

(***************************************************************************)
(* extractJsFromHyp: claims C1-C4, under DecoderSpec.                      *)
(***************************************************************************)
\* C1: when a descriptor declares more bytes than the buffer holds from the
\* cursor on, decoding fails (with TruncatedAsset; any failure is let count
\* here) and returns no scripts.
C1_TruncatedAssetFails ==
    ( /\ decoded # Pending
      /\ HasHeader(buffer)
      /\ \E i \in 1..Len(HeaderAssets(buffer)) : Truncated(buffer, i) )
    => ~decoded.ok

\* C2: when the declared sizes fit, every asset, script or not, moves the
\* cursor by its declared size: each script asset's payload is read from
\* 4 + headerSize + the sizes of the assets before it, in full, and the
\* assets of another type add nothing to the output.
C2_CursorAdvancesBySize ==
    ( /\ decoded.ok
      /\ SizesFit(buffer) )
    => LET idx == ScriptIndexes(buffer) IN
       /\ Len(decoded.scripts) = Len(idx)
       /\ Len(decoded.reads) = Len(idx)
       /\ \A k \in 1..Len(idx) :
            /\ decoded.reads[k].from = OffsetOf(buffer, idx[k])
            /\ decoded.reads[k].bytes = HeaderAssets(buffer)[idx[k]].size

\* a script, an image and a script, none of them empty, were decoded
C2_Witness ==
    /\ decoded.ok
    /\ SizesFit(buffer)
    /\ Len(HeaderAssets(buffer)) = 3
    /\ HeaderAssets(buffer)[1].type = "script"
    /\ HeaderAssets(buffer)[2].type = "image"
    /\ HeaderAssets(buffer)[3].type = "script"
    /\ \A i \in 1..3 : HeaderAssets(buffer)[i].size >= 1
    /\ Len(decoded.scripts) = 2

\* C3: a buffer shorter than 4 + headerSize does not decode (the failure is
\* MalformedContainer; any failure is let count here): no list of scripts
\* is returned for it.
C3_ShortBufferFails ==
    ( /\ decoded # Pending
      /\ \/ Len(buffer) < 4
         \/ Len(buffer) < 4 + getUint32LE(buffer) )
    => ~decoded.ok

\* C4: a script asset whose payload is not valid UTF-8 is skipped: the
\* scripts returned are those of the script assets whose payload is valid
\* UTF-8, one each.
C4_InvalidEncodingSkipped ==
    ( /\ decoded.ok
      /\ SizesFit(buffer) )
    => LET idx   == ScriptIndexes(buffer)
           valid == {k \in 1..Len(idx) : ValidUtf8(PayloadOf(buffer, idx[k]))}
       IN  Len(decoded.scripts) = Cardinality(valid)

(***************************************************************************)
(* processFiles: claims C5-C10.                                            *)
(***************************************************************************)
\* the container at place i of the run decodes
Decodes(i) == Extracted[runFiles[i]].ok

\* some container of the run does not decode
RunFailed == \E i \in 1..Len(runFiles) : ~Decodes(i)

\* the first container of the run that does not decode
FirstFailure ==
    CHOOSE i \in 1..Len(runFiles) :
        /\ ~Decodes(i)
        /\ \A j \in 1..(i - 1) : Decodes(j)

\* one entry per script asset of one container, in header order: the
\* container's name and the text of the asset's payload
ExpectedOfFile(f) ==
    LET b   == Catalogue[f].bytes
        idx == ScriptIndexes(b)
    IN  [k \in 1..Len(idx) |->
            [hyp |-> Catalogue[f].name,
             content |-> TextDecode(PayloadOf(b, idx[k]))]]

\* the same for the first n containers of the run that decode, in input order
RECURSIVE ExpectedUpTo(_)
ExpectedUpTo(n) ==
    IF n = 0 THEN <<>>
    ELSE ExpectedUpTo(n - 1)
           \o (IF Decodes(n) THEN ExpectedOfFile(runFiles[n]) ELSE <<>>)

\* what the accumulated list holds, without the output names
Accumulated ==
    [k \in 1..Len(allScripts) |->
        [hyp |-> allScripts[k].hyp, content |-> allScripts[k].content]]

\* every output is in the archive, under its name
HoldsAll(z, all) ==
    \A k \in 1..Len(all) :
        /\ all[k].name \in DOMAIN z
        /\ z[all[k].name] = all[k].content

\* the container (place in the run) the k-th accumulated entry comes from
RECURSIVE ContainerOfFrom(_, _)
ContainerOfFrom(k, i) ==
    LET n == Len(ExpectedOfFile(runFiles[i])) IN
    IF k <= n THEN i ELSE ContainerOfFrom(k - n, i + 1)

ContainerOf(k) == ContainerOfFrom(k, 1)

\* C5, as claimed: when a container of the batch fails to decode, the batch
\* goes on: once the run has ended, the scripts of every container that
\* decodes have been accumulated, and delivered if there are any.
C5_BatchNotAborted ==
    ( /\ pc = "done"
      /\ RunFailed )
    => /\ Accumulated = ExpectedUpTo(Len(runFiles))
       /\ Accumulated # <<>> => downloads # <<>>

\* C5, amended: when a container of the batch fails to decode, the failure
\* is reported as the run's error status and the batch is aborted there: no
\* later container is decoded, nothing is downloaded or archived, and the
\* run ends with only the scripts of the containers before it accumulated.
C5_BatchAborted ==
    ( /\ pc # "idle"
      /\ RunFailed )
    => /\ fileIdx <= FirstFailure
       /\ downloads = <<>>
       /\ zip = EmptyZip
       /\ pc # "zipping"
       /\ pc = "done" =>
            /\ fileIdx = FirstFailure
            /\ status.kind = "error"
            /\ status.error = Extracted[runFiles[FirstFailure]].error
            /\ Accumulated = ExpectedUpTo(FirstFailure - 1)

\* a run ended on its first container's failure, with a container that
\* decodes (and holds scripts) after it
C5_Witness ==
    /\ pc = "done"
    /\ Len(runFiles) = 2
    /\ ~Decodes(1)
    /\ Decodes(2)
    /\ ExpectedOfFile(runFiles[2]) # <<>>

\* C6: when every container of the batch decodes, the accumulated list
\* holds exactly one entry per script asset of every container, in
\* container order and, within a container, in header order.
C6_AccumulatedInOrder ==
    ( /\ pc \in {"zipping", "done"}
      /\ ~RunFailed )
    => Accumulated = ExpectedUpTo(Len(runFiles))

\* two different containers, the first with two scripts, were accumulated
C6_Witness ==
    /\ pc = "done"
    /\ ~RunFailed
    /\ Len(runFiles) = 2
    /\ runFiles[1] # runFiles[2]
    /\ Len(ExpectedOfFile(runFiles[1])) = 2
    /\ Len(ExpectedOfFile(runFiles[2])) >= 1
    /\ Len(allScripts) >= 3

\* C7: with a non-empty output list, at the end of a run that did not end
\* in an error: one file download named after the one output if and only if
\* one container was supplied and one script extracted; otherwise exactly
\* one archive, holding all outputs, and no file download.
C7_SingleFileOrArchive ==
    ( /\ pc = "done"
      /\ Len(allScripts) > 0
      /\ status.kind # "error" )
    => IF Len(runFiles) = 1 /\ Len(allScripts) = 1
       THEN downloads = <<FileDownload(allScripts[1])>>
       ELSE /\ Len(downloads) = 1
            /\ downloads[1].kind = "zip"
            /\ HoldsAll(downloads[1].entries, allScripts)

\* C8: when every container has been processed and the output list is
\* empty, the run ends with the "no javascript found" status, which is not
\* an error, and with no download and no archive.
C8_NoScriptsFound ==
    ( /\ pc = "done"
      /\ ~RunFailed
      /\ ExpectedUpTo(Len(runFiles)) = <<>> )
    => /\ status.kind = "no javascript found"
       /\ status.kind # "error"
       /\ status.error = ""
       /\ downloads = <<>>
       /\ zip = EmptyZip
       /\ ~processing

\* a run over containers that hold no script has ended
C8_Witness ==
    /\ pc = "done"
    /\ Len(runFiles) >= 1
    /\ ~RunFailed
    /\ ExpectedUpTo(Len(runFiles)) = <<>>

\* C9: the output names of a run are pairwise distinct, unless the two
\* entries come from two containers (of the same sanitized stem, each with
\* a script of the same sanitized stem).
C9_NamesDistinct ==
    ( /\ pc \in {"zipping", "done"}
      /\ ~RunFailed )
    => \A j, k \in 1..Len(allScripts) :
          (j < k /\ allScripts[j].name = allScripts[k].name)
            => ContainerOf(j) # ContainerOf(k)

\* C10: while a run is under way the processing flag is true; a run that
\* has ended, however it ended, has set it back to false and left a final
\* status; and every run ends.
FinalStatuses ==
    { "no javascript found", "successfully extracted javascript",
      "successfully extracted scripts", "error" }

C10_ProcessingFlag ==
    /\ [](pc \in {"reading", "zipping"} => processing)
    /\ [](pc \in {"idle", "done"} => ~processing)
    /\ [](pc = "done" => status.kind \in FinalStatuses)
    /\ (processing ~> (pc = "done" /\ ~processing))

\* a run has ended on the failure of the archive's generation
C10_Witness ==
    /\ pc = "done"
    /\ ~processing
    /\ status.kind = "error"
    /\ status.error = "generateAsync failed"

====
